---------------------------- MODULE Spec2Model ----------------------------
(***************************************************************************)
(* The type-inference engine of the CKAN toolbox (src/main.js):            *)
(* generateDataDictionary scans every column of a parsed CSV table,        *)
(* classifies each cell with detectType, tallies the tags, and resolves    *)
(* one tag per column with chooseType.                                     *)
(*                                                                         *)
(* A JavaScript string is a sequence of one-character strings.  The        *)
(* JavaScript values null and undefined, which the code never tells apart  *)
(* (it only uses "== null" / "!= null" on cell values), are the single     *)
(* value null below: a one-element sequence whose element is no character. *)
(***************************************************************************)
EXTENDS Integers, Sequences, FiniteSets, TLC

VARIABLES data, tz, engine, pc, headers, hi, ri, typeCounts, example,
          value, detectedType, chosenType, dictionary, result, fed,
          apiKey, call, requests, err, ret,
          schemas, comparison, cmpOut

vars == <<data, tz, engine, pc, headers, hi, ri, typeCounts, example,
          value, detectedType, chosenType, dictionary, result, fed,
          apiKey, call, requests, err, ret,
          schemas, comparison, cmpOut>>

\* The variables of the data dictionary generator, pc apart.
dictVars == <<data, tz, engine, headers, hi, ri, typeCounts, example,
              value, detectedType, chosenType, dictionary, result, fed>>

\* The variables of a call of the CKAN Action API (src/ckan.js).
ckanVars == <<apiKey, call, requests, err, ret>>

\* The variables of the schema comparison.
cmpVars == <<schemas, comparison, cmpOut>>

-----------------------------------------------------------------------------
(* Bounds of the model.                                                    *)

MaxRows == 2
MaxLen == 3
MaxCount == 2
MaxColumn == 3
MaxFields == 2

-----------------------------------------------------------------------------
(* JavaScript values.                                                      *)

null == <<"null">>

Digits == {"0", "1", "2", "3", "4", "5", "6", "7", "8", "9"}

WhiteSpace == {" ", "\t"}

SetMin(S) == CHOOSE x \in S : \A y \in S : x <= y

SetMax(S) == CHOOSE x \in S : \A y \in S : x >= y

\* String.prototype.trim: drop leading and trailing white space.
trim(s) ==
  LET keep == {i \in 1..Len(s) : s[i] \notin WhiteSpace}
  IN  IF keep = {} THEN <<>> ELSE SubSeq(s, SetMin(keep), SetMax(keep))

\* \d* matched against a whole string.
IsDigits(s) == \A i \in 1..Len(s) : s[i] \in Digits

\* The string after an optional leading minus sign (the regexps' -?).
StripMinus(s) == IF Len(s) > 0 /\ s[1] = "-" THEN Tail(s) ELSE s

\* /^-?\d+$/.test(s)
MatchesInt(s) ==
  LET r == StripMinus(s) IN Len(r) >= 1 /\ IsDigits(r)

\* /^-?\d*\.\d+$/.test(s)
MatchesFloat(s) ==
  LET r == StripMinus(s)
  IN  \E k \in 1..Len(r) :
        /\ r[k] = "."
        /\ IsDigits(SubSeq(r, 1, k - 1))
        /\ Len(r) > k
        /\ IsDigits(SubSeq(r, k + 1, Len(r)))

\* Variant: the boolean rule knows the lower-case words only.
BoolLiteralsLower ==
  { <<"t","r","u","e">>, <<"f","a","l","s","e">>, <<"0">>, <<"1">> }

\* The literal list of the boolean rule.
BoolLiterals ==
  { <<"t","r","u","e">>, <<"f","a","l","s","e">>,
    <<"T","r","u","e">>, <<"F","a","l","s","e">>, <<"0">>, <<"1">> }

-----------------------------------------------------------------------------
(* new Date(string) and the local-time getters.                            *)
(*                                                                         *)
(* Only the time of day of the parsed instant is read by the code, so an   *)
(* instant is its second of the day in UTC.  tz is the runtime's offset in *)
(* minutes (local time = UTC + tz).  ECMAScript fixes the reading of its   *)
(* own date-time format: a date-only form is UTC midnight, a date-time     *)
(* form without offset is local time, a trailing Z is UTC.  Every other    *)
(* string is read by an implementation-defined fallback, whose outcome is  *)
(* the environment's choice engine; a string without any digit is invalid  *)
(* in every engine.                                                        *)

DigitChars == <<"0", "1", "2", "3", "4", "5", "6", "7", "8", "9">>

DigitVal(c) == (CHOOSE i \in 1..10 : DigitChars[i] = c) - 1

RECURSIVE Num(_)
Num(s) == IF s = <<>> THEN 0
          ELSE 10 * Num(SubSeq(s, 1, Len(s) - 1)) + DigitVal(s[Len(s)])

IsLeap(y) == (y % 4 = 0 /\ y % 100 # 0) \/ y % 400 = 0

DaysInMonth(y, m) ==
  IF m = 2 THEN (IF IsLeap(y) THEN 29 ELSE 28)
  ELSE IF m \in {4, 6, 9, 11} THEN 30 ELSE 31

\* YYYY-MM-DD naming a day of the calendar.
IsIsoDate(s) ==
  /\ Len(s) = 10
  /\ s[5] = "-" /\ s[8] = "-"
  /\ IsDigits(SubSeq(s, 1, 4)) /\ IsDigits(SubSeq(s, 6, 7))
  /\ IsDigits(SubSeq(s, 9, 10))
  /\ Num(SubSeq(s, 6, 7)) \in 1..12
  /\ Num(SubSeq(s, 9, 10)) \in
       1..DaysInMonth(Num(SubSeq(s, 1, 4)), Num(SubSeq(s, 6, 7)))

\* HH:mm or HH:mm:ss
IsIsoTime(s) ==
  /\ Len(s) \in {5, 8}
  /\ IsDigits(SubSeq(s, 1, 2)) /\ s[3] = ":" /\ IsDigits(SubSeq(s, 4, 5))
  /\ Num(SubSeq(s, 1, 2)) \in 0..23 /\ Num(SubSeq(s, 4, 5)) \in 0..59
  /\ Len(s) = 8 =>
       /\ s[6] = ":" /\ IsDigits(SubSeq(s, 7, 8))
       /\ Num(SubSeq(s, 7, 8)) \in 0..59

IsoTimeSeconds(s) ==
  Num(SubSeq(s, 1, 2)) * 3600 + Num(SubSeq(s, 4, 5)) * 60
    + (IF Len(s) = 8 THEN Num(SubSeq(s, 7, 8)) ELSE 0)

EndsWithZ(s) == Len(s) > 0 /\ s[Len(s)] = "Z"

\* The time part of YYYY-MM-DDTtime or YYYY-MM-DDTtimeZ.
IsoTimePart(s) ==
  IF EndsWithZ(s) THEN SubSeq(s, 12, Len(s) - 1) ELSE SubSeq(s, 12, Len(s))

IsIsoDateTime(s) ==
  /\ Len(s) >= 16
  /\ IsIsoDate(SubSeq(s, 1, 10))
  /\ s[11] = "T"
  /\ IsIsoTime(IsoTimePart(s))

NaN == [valid |-> FALSE, utc |-> 0]

Instant(sec) == [valid |-> TRUE, utc |-> sec % 86400]

EngineOutcomes == {"invalid", "midnight", "timed"}

\* The implementation-defined reading of a string outside the format.
LegacyDate(s, tzv, eng) ==
  IF eng = "invalid" \/ \A i \in 1..Len(s) : s[i] \notin Digits THEN NaN
  ELSE IF eng = "midnight" THEN Instant(0 - tzv * 60)
  ELSE Instant(12 * 3600 + 34 * 60 + 56 - tzv * 60)

\* new Date(s)
NewDate(s, tzv, eng) ==
  IF IsIsoDate(s) THEN Instant(0)
  ELSE IF IsIsoDateTime(s) THEN
    IF EndsWithZ(s) THEN Instant(IsoTimeSeconds(IsoTimePart(s)))
    ELSE Instant(IsoTimeSeconds(IsoTimePart(s)) - tzv * 60)
  ELSE LegacyDate(s, tzv, eng)

LocalSeconds(d, tzv) == (d.utc + tzv * 60) % 86400

getHours(d, tzv) == LocalSeconds(d, tzv) \div 3600

getMinutes(d, tzv) == (LocalSeconds(d, tzv) % 3600) \div 60

getSeconds(d, tzv) == LocalSeconds(d, tzv) % 60

-----------------------------------------------------------------------------
\* Variant: the integer rule is tried before the boolean rule.
detectTypeIntFirst(v, tzv, eng) ==
  IF v = <<>> \/ v = null \/ trim(v) = <<>>
     \/ v = <<"N","A">> \/ v = <<"N","U","L","L">>
  THEN "text"
  ELSE IF MatchesInt(v) THEN "int"
  ELSE IF v \in BoolLiterals THEN "bool"
  ELSE IF MatchesFloat(v) THEN "float"
  ELSE LET dateObj == NewDate(v, tzv, eng)
       IN  IF dateObj.valid
           THEN IF /\ getHours(dateObj, tzv) = 0
                   /\ getMinutes(dateObj, tzv) = 0
                   /\ getSeconds(dateObj, tzv) = 0
                THEN "date"
                ELSE "datetime"
           ELSE "text"

-----------------------------------------------------------------------------
(* detectType: the ordered rules, first match wins.                        *)

detectType(v, tzv, eng) ==
  IF v = <<>> \/ v = null \/ trim(v) = <<>>
     \/ v = <<"N","A">> \/ v = <<"N","U","L","L">>
  THEN "text"
  ELSE IF v \in BoolLiterals THEN "bool"
  ELSE IF MatchesInt(v) THEN "int"
  ELSE IF MatchesFloat(v) THEN "float"
  ELSE LET dateObj == NewDate(v, tzv, eng)
       IN  IF dateObj.valid
           THEN IF /\ getHours(dateObj, tzv) = 0
                   /\ getMinutes(dateObj, tzv) = 0
                   /\ getSeconds(dateObj, tzv) = 0
                THEN "date"
                ELSE "datetime"
           ELSE "text"

-----------------------------------------------------------------------------
(* The tally and chooseType.                                               *)
(*                                                                         *)
(* typeCounts is a JavaScript object with string keys: its entries are     *)
(* kept, and iterated by Object.entries, in insertion order.               *)

TagOrder == <<"text", "int", "float", "bool", "datetime", "date">>

Tags == {TagOrder[i] : i \in 1..Len(TagOrder)}

\* { text: 0, int: 0, float: 0, bool: 0, datetime: 0, date: 0 }
ZeroCounts == [i \in 1..Len(TagOrder) |-> [type |-> TagOrder[i], count |-> 0]]

HasKey(counts, t) == \E i \in 1..Len(counts) : counts[i].type = t

\* counts[t], 0 standing for undefined (the code reads it as counts[t] || 0)
CountOf(counts, t) ==
  IF HasKey(counts, t)
  THEN counts[CHOOSE i \in 1..Len(counts) : counts[i].type = t].count
  ELSE 0

\* Variant: the count is set to 1 instead of being incremented.
IncrementSet(counts, t) ==
  IF HasKey(counts, t)
  THEN [i \in 1..Len(counts) |->
          IF counts[i].type = t THEN [type |-> t, count |-> 1] ELSE counts[i]]
  ELSE Append(counts, [type |-> t, count |-> 1])

\* counts[t] = (counts[t] || 0) + 1
Increment(counts, t) ==
  IF HasKey(counts, t)
  THEN [i \in 1..Len(counts) |->
          IF counts[i].type = t
          THEN [type |-> t, count |-> counts[i].count + 1]
          ELSE counts[i]]
  ELSE Append(counts, [type |-> t, count |-> 1])

\* Variant: a count equal to the running max replaces the selection.
RECURSIVE chooseFromGe(_, _, _, _)
chooseFromGe(counts, i, max, selected) ==
  IF i > Len(counts) THEN selected
  ELSE IF counts[i].count >= max
       THEN chooseFromGe(counts, i + 1, counts[i].count, counts[i].type)
       ELSE chooseFromGe(counts, i + 1, max, selected)

\* The loop of chooseType from entry i on, with the running max and selection.
RECURSIVE chooseFrom(_, _, _, _)
chooseFrom(counts, i, max, selected) ==
  IF i > Len(counts) THEN selected
  ELSE IF counts[i].count > max
       THEN chooseFrom(counts, i + 1, counts[i].count, counts[i].type)
       ELSE chooseFrom(counts, i + 1, max, selected)

chooseType(counts) == chooseFrom(counts, 1, 0, "text")

-----------------------------------------------------------------------------
(* Rows and the column scan.                                               *)
(*                                                                         *)
(* A row is an object: a sequence of <<key, value>> pairs in key-insertion *)
(* order, with distinct keys.                                              *)

\* Variant: the keys come out in reverse insertion order.
KeysReversed(row) == [i \in 1..Len(row) |-> row[Len(row) + 1 - i][1]]

\* Object.keys(row)
Keys(row) == [i \in 1..Len(row) |-> row[i][1]]

\* row[header], undefined when the row lacks the key
Get(row, header) ==
  IF \E i \in 1..Len(row) : row[i][1] = header
  THEN row[CHOOSE i \in 1..Len(row) : row[i][1] = header][2]
  ELSE null

\* Variant: every non-empty value replaces the example.
UpdateExampleLast(ex, v) ==
  IF v # <<>> /\ v # null THEN v ELSE ex

\* The example after the inner forEach callback has seen one value.
UpdateExample(ex, v) ==
  IF v # <<>> /\ v # null /\ ex = null THEN v ELSE ex

\* The body of the inner forEach callback on one value: the profile
\* (typeCounts, example) after the value.
UpdateStep(profile, v, tzv, eng) ==
  [example    |-> UpdateExample(profile.example, v),
   typeCounts |-> Increment(profile.typeCounts, detectType(v, tzv, eng))]

\* let typeCounts = {...}; let example = null;
NewProfile == [example |-> null, typeCounts |-> ZeroCounts]

\* Variant: every forEach starts with a fresh example.
RECURSIVE ForEachRest(_, _, _, _)
ForEachRest(profile, values, tzv, eng) ==
  IF values = <<>> THEN profile
  ELSE ForEachRest(UpdateStep(profile, Head(values), tzv, eng), Tail(values),
                   tzv, eng)

ForEachFresh(profile, values, tzv, eng) ==
  ForEachRest([profile EXCEPT !.example = null], values, tzv, eng)

\* values.forEach(value => ...) from a given profile
RECURSIVE ForEach(_, _, _, _)
ForEach(profile, values, tzv, eng) ==
  IF values = <<>> THEN profile
  ELSE ForEach(UpdateStep(profile, Head(values), tzv, eng), Tail(values),
               tzv, eng)

\* The values of one column in row order.
Column(table, header) == [r \in 1..Len(table) |-> Get(table[r], header)]

\* One entry of the dictionary.
Entry(header, counts, ex) ==
  [column |-> header, type |-> chooseType(counts), example |-> ex,
   description |-> <<>>]

-----------------------------------------------------------------------------
(* Inputs.                                                                 *)

SeqsUpTo(S, n) == UNION {[1..k -> S] : k \in 0..n}

\* Offsets of the runtime's time zone, in minutes east of UTC.
TZOffsets == {0 - 300, 0, 330}

\* The rows a header line fields can give: the first n fields, n <= Len(fields).
Rows(fields, cells) ==
  UNION { {[i \in 1..n |-> <<fields[i], c[i]>>] : c \in [1..n -> cells]}
          : n \in 0..Len(fields) }

Tables(fields, cells, maxRows) == SeqsUpTo(Rows(fields, cells), maxRows)

FieldOrders == { <<"id", "name">>, <<"name", "id">> }

TableCells ==
  { <<>>, <<"7">>, <<"2","0","2","3","-","0","1","-","0","1">> }

ColumnCells ==
  { <<>>, <<" ">>, <<"N","A">>, <<"N","U","L","L">>,
    <<"h","e","l","l","o">>, <<"1">>, <<"2">>, <<"1",".","5">>,
    <<"2","0","2","3","-","0","1","-","0","1">>,
    <<"2","0","2","3","-","0","6","-","1","5">> }

\* The words and digits a CSV column of booleans is written with.
BoolWords ==
  { <<"t","r","u","e">>, <<"f","a","l","s","e">>,
    <<"T","r","u","e">>, <<"F","a","l","s","e">>, <<"0">>, <<"1">> }

HomogeneousCells == BoolWords \cup { <<"2">>, <<"-","7">> }

StreamCells ==
  { <<>>, <<"N","A">>, <<"h","e","l","l","o">>, <<"1">>, <<"2">>,
    <<"2","0","2","3","-","0","1","-","0","1">> }

Alphabet == {"0", "1", "7", "-", ".", " ", "a"}

Samples ==
  BoolWords \cup
  { null, <<"N","A">>, <<"N","U","L","L">>, <<"\t"," ">>,
    <<"h","e","l","l","o">>, <<"-","1","2","3","4">>,
    <<"2","0","2","3","-","0","1","-","0","1">>,
    <<"2","0","2","3","-","0","6","-","1","5">>,
    <<"2","0","2","3","-","0","2","-","3","0">>,
    <<"2","0","2","3","-","0","1","-","0","1","T","0","0",":","0","0">>,
    <<"2","0","2","3","-","0","1","-","0","1","T","1","0",":","3","0",":","0","0">>,
    <<"2","0","2","3","-","0","1","-","0","1","T","0","0",":","0","0",":","0","0","Z">>,
    <<"2","0","2","3","-","0","1","-","0","1","T","0","5",":","0","0",":","0","0","Z">> }

Strings == SeqsUpTo(Alphabet, MaxLen) \cup Samples

Tallies ==
  { [i \in 1..Len(TagOrder) |-> [type |-> TagOrder[i], count |-> c[i]]]
    : c \in [1..Len(TagOrder) -> 0..MaxCount] }

-----------------------------------------------------------------------------
(* No call of the CKAN API and no comparison under way.                    *)

NoCall == [op |-> "none", action |-> "none", resource |-> "none",
           fields |-> <<>>]

CkanIdle ==
  /\ apiKey = "" /\ call = NoCall /\ requests = <<>>
  /\ err = "none" /\ ret = <<>>

NoComparison == [sameNames |-> FALSE, typeMismatches |-> <<>>]

CompareIdle ==
  /\ schemas = [src |-> <<>>, dst |-> <<>>]
  /\ comparison = NoComparison
  /\ cmpOut = "empty"

-----------------------------------------------------------------------------
(* generateDataDictionary as a state machine: one step per callback of the *)
(* two forEach loops.                                                      *)

Pending == [kind |-> "pending", entries |-> <<>>]

Locals ==
  /\ headers = <<>> /\ hi = 0 /\ ri = 0
  /\ typeCounts = <<>> /\ example = null
  /\ value = null /\ detectedType = "undefined" /\ chosenType = "undefined"
  /\ dictionary = <<>> /\ result = Pending /\ fed = <<>>

InitTables(orders, cells, maxRows) ==
  /\ \E fields \in orders : data \in Tables(fields, cells, maxRows)
  /\ tz \in TZOffsets
  /\ engine \in EngineOutcomes
  /\ pc = "call"
  /\ Locals
  /\ CkanIdle /\ CompareIdle

Init == InitTables(FieldOrders, TableCells, MaxRows)

\* if (data.length === 0) return {};
ReturnEmpty ==
  /\ pc = "call" /\ Len(data) = 0
  /\ result' = [kind |-> "object", entries |-> <<>>]
  /\ pc' = "returned"
  /\ UNCHANGED <<data, tz, engine, headers, hi, ri, typeCounts, example,
                 value, detectedType, chosenType, dictionary, fed,
                 ckanVars, cmpVars>>

\* const headers = Object.keys(data[0]); let dictionary = [];
Begin ==
  /\ pc = "call" /\ Len(data) # 0
  /\ headers' = Keys(data[1])
  /\ dictionary' = <<>>
  /\ hi' = 1
  /\ pc' = "header"
  /\ UNCHANGED <<data, tz, engine, ri, typeCounts, example, value,
                 detectedType, chosenType, result, fed,
                 ckanVars, cmpVars>>

\* The outer callback begins: a fresh tally and example for this header.
BeginColumn ==
  /\ pc = "header" /\ hi <= Len(headers)
  /\ typeCounts' = NewProfile.typeCounts
  /\ example' = NewProfile.example
  /\ ri' = 0
  /\ pc' = "rows"
  /\ UNCHANGED <<data, tz, engine, headers, hi, value, detectedType,
                 chosenType, dictionary, result, fed,
                 ckanVars, cmpVars>>

\* The inner callback on the next row.
ScanRow ==
  /\ pc = "rows" /\ ri < Len(data)
  /\ LET v == Get(data[ri + 1], headers[hi])
         p == UpdateStep([example |-> example, typeCounts |-> typeCounts],
                         v, tz, engine)
     IN  /\ value' = v
         /\ detectedType' = detectType(v, tz, engine)
         /\ example' = p.example
         /\ typeCounts' = p.typeCounts
  /\ ri' = ri + 1
  /\ UNCHANGED <<data, tz, engine, pc, headers, hi, chosenType, dictionary,
                 result, fed,
                 ckanVars, cmpVars>>

\* The outer callback ends: resolve the type and push the entry.
EndColumn ==
  /\ pc = "rows" /\ ri = Len(data)
  /\ chosenType' = chooseType(typeCounts)
  /\ dictionary' = Append(dictionary, Entry(headers[hi], typeCounts, example))
  /\ hi' = hi + 1
  /\ pc' = "header"
  /\ UNCHANGED <<data, tz, engine, headers, ri, typeCounts, example, value,
                 detectedType, result, fed,
                 ckanVars, cmpVars>>

\* return dictionary;
Return ==
  /\ pc = "header" /\ hi > Len(headers)
  /\ result' = [kind |-> "array", entries |-> dictionary]
  /\ pc' = "returned"
  /\ UNCHANGED <<data, tz, engine, headers, hi, ri, typeCounts, example,
                 value, detectedType, chosenType, dictionary, fed,
                 ckanVars, cmpVars>>

Next == ReturnEmpty \/ Begin \/ BeginColumn \/ ScanRow \/ EndColumn \/ Return

Spec == Init /\ [][Next]_vars

\* One column scanned from a wider range of cell values.
InitColumn == InitTables({ <<"a">> }, ColumnCells, MaxColumn)

SpecColumn == InitColumn /\ [][Next]_vars

\* One column of values of one kind.
InitHomogeneous == InitTables({ <<"a">> }, HomogeneousCells, MaxColumn)

SpecHomogeneous == InitHomogeneous /\ [][Next]_vars

-----------------------------------------------------------------------------
(* detectType applied to one value.                                        *)

InitClassify ==
  /\ value \in Strings
  /\ tz \in TZOffsets
  /\ engine \in EngineOutcomes
  /\ pc = "classify"
  /\ data = <<>> /\ headers = <<>> /\ hi = 0 /\ ri = 0
  /\ typeCounts = <<>> /\ example = null
  /\ detectedType = "undefined" /\ chosenType = "undefined"
  /\ dictionary = <<>> /\ result = Pending /\ fed = <<>>
  /\ CkanIdle /\ CompareIdle

Classify ==
  /\ pc = "classify"
  /\ detectedType' = detectType(value, tz, engine)
  /\ pc' = "classified"
  /\ UNCHANGED <<data, tz, engine, headers, hi, ri, typeCounts, example,
                 value, chosenType, dictionary, result, fed,
                 ckanVars, cmpVars>>

NextClassify == Classify

SpecClassify == InitClassify /\ [][NextClassify]_vars

-----------------------------------------------------------------------------
(* chooseType applied to one tally.                                        *)

InitResolve ==
  /\ typeCounts \in Tallies
  /\ tz = 0 /\ engine = "invalid"
  /\ pc = "resolve"
  /\ data = <<>> /\ headers = <<>> /\ hi = 0 /\ ri = 0
  /\ example = null /\ value = null
  /\ detectedType = "undefined" /\ chosenType = "undefined"
  /\ dictionary = <<>> /\ result = Pending /\ fed = <<>>
  /\ CkanIdle /\ CompareIdle

Resolve ==
  /\ pc = "resolve"
  /\ chosenType' = chooseType(typeCounts)
  /\ pc' = "resolved"
  /\ UNCHANGED <<data, tz, engine, headers, hi, ri, typeCounts, example,
                 value, detectedType, dictionary, result, fed,
                 ckanVars, cmpVars>>

NextResolve == Resolve

SpecResolve == InitResolve /\ [][NextResolve]_vars

-----------------------------------------------------------------------------
(* The per-value update step fed a column as a stream of chunks: the       *)
(* profile is kept between chunks, each chunk is scanned in row order.     *)

InitStream ==
  /\ data \in Tables(<<"a">>, StreamCells, MaxColumn)
  /\ tz \in TZOffsets
  /\ engine \in EngineOutcomes
  /\ pc = "stream"
  /\ headers = <<"a">> /\ hi = 1 /\ ri = 0
  /\ typeCounts = NewProfile.typeCounts /\ example = NewProfile.example
  /\ value = null /\ detectedType = "undefined" /\ chosenType = "undefined"
  /\ dictionary = <<>> /\ result = Pending /\ fed = <<>>
  /\ CkanIdle /\ CompareIdle

Feed(n) ==
  /\ pc = "stream" /\ ri + n <= Len(data)
  /\ LET chunk == SubSeq(Column(data, headers[hi]), ri + 1, ri + n)
         p == ForEach([example |-> example, typeCounts |-> typeCounts],
                      chunk, tz, engine)
     IN  /\ example' = p.example
         /\ typeCounts' = p.typeCounts
  /\ ri' = ri + n
  /\ fed' = Append(fed, n)
  /\ UNCHANGED <<data, tz, engine, pc, headers, hi, value, detectedType,
                 chosenType, dictionary, result,
                 ckanVars, cmpVars>>

NextStream == \E n \in 1..MaxColumn : Feed(n)

SpecStream == InitStream /\ [][NextStream]_vars

-----------------------------------------------------------------------------
(* ckanCall (src/ckan.js) and the helpers that call it.                    *)
(*                                                                         *)
(* requests is the sequence of HTTP requests the page has issued.  The     *)
(* server and the network are the environment: a fetch is rejected, or     *)
(* answers with a body that does not parse, or with success false, or with *)
(* success true; the script of a JSONP request fails to load, or calls     *)
(* back with success false or true.                                        *)

\* The field lists a server answers with (ids only).
FieldLists == { <<"_id", "a">>, <<"a">> }

FetchFailures == {"network", "body", "ckan"}

JsonpFailures == {"load", "ckan"}

\* getSchema / getDataDictionary: datastore_search on the resource
SearchCall(op, resId) ==
  [op |-> op, action |-> "datastore_search", resource |-> resId,
   fields |-> <<>>]

\* setDataDictionary: datastore_create with the reference fields, a leading
\* _id dropped
CreateCall(op, resId, refFields) ==
  [op |-> op, action |-> "datastore_create", resource |-> resId,
   fields |-> IF refFields # <<>> /\ refFields[1] = "_id"
              THEN Tail(refFields) ELSE refFields]

\* The fetch of ckanCall: an authorised POST with a key, else a plain GET.
FetchRequest(c, key) ==
  [via |-> "fetch", method |-> IF key # "" THEN "POST" ELSE "GET",
   action |-> c.action, resource |-> c.resource, auth |-> key # ""]

\* jsonp(urlWithQs): a script element, so a GET that carries no header.
JsonpRequest(c) ==
  [via |-> "jsonp", method |-> "GET", action |-> c.action,
   resource |-> c.resource, auth |-> FALSE]

InitCkan ==
  /\ pc = "ckanCall"
  /\ apiKey \in {"", "key"}
  /\ call \in { SearchCall("getSchema", "src"),
                SearchCall("cloneDataDictionary", "src") }
  /\ requests = <<>> /\ err = "none" /\ ret = <<>>
  /\ data = <<>> /\ tz = 0 /\ engine = "invalid"
  /\ Locals
  /\ CompareIdle

\* ckanCall starts: the fetch is issued.
CkanFetch ==
  /\ pc = "ckanCall"
  /\ requests' = Append(requests, FetchRequest(call, apiKey))
  /\ pc' = "fetch"
  /\ UNCHANGED <<dictVars, cmpVars, apiKey, call, err, ret>>

\* return data.result, and what the caller does with it:
\* cloneDataDictionary goes on to setDataDictionary on the destination.
ReturnResult(fields) ==
  /\ ret' = fields
  /\ IF call.op = "cloneDataDictionary" /\ call.action = "datastore_search"
     THEN /\ call' = CreateCall(call.op, "dst", fields)
          /\ pc' = "ckanCall"
     ELSE /\ call' = call
          /\ pc' = "done"

\* The fetch answers with success true.
FetchSucceeds(fields) ==
  /\ pc = "fetch"
  /\ ReturnResult(fields)
  /\ UNCHANGED <<dictVars, cmpVars, apiKey, requests, err>>

\* Anything thrown in the try block lands in catch, which issues the JSONP
\* request.
FetchFails(why) ==
  /\ pc = "fetch"
  /\ err' = why
  /\ requests' = Append(requests, JsonpRequest(call))
  /\ pc' = "jsonp"
  /\ UNCHANGED <<dictVars, cmpVars, apiKey, call, ret>>

\* The JSONP callback is called with success true.
JsonpSucceeds(fields) ==
  /\ pc = "jsonp"
  /\ ReturnResult(fields)
  /\ UNCHANGED <<dictVars, cmpVars, apiKey, requests, err>>

\* The script fails to load, or calls back with success false: ckanCall
\* throws to its caller.
JsonpFails(why) ==
  /\ pc = "jsonp"
  /\ err' = why
  /\ pc' = "thrown"
  /\ UNCHANGED <<dictVars, cmpVars, apiKey, call, requests, ret>>

NextCkan ==
  \/ CkanFetch
  \/ \E fields \in FieldLists : FetchSucceeds(fields)
  \/ \E why \in FetchFailures : FetchFails(why)
  \/ \E fields \in FieldLists : JsonpSucceeds(fields)
  \/ \E why \in JsonpFailures : JsonpFails(why)

SpecCkan == InitCkan /\ [][NextCkan]_vars

-----------------------------------------------------------------------------
(* compareSchemas (src/ckan.js) and the Compare button (src/main.js).      *)
(*                                                                         *)
(* A schema is the field list datastore_search answers with: a sequence of *)
(* [id, type] with distinct ids, an id being a string (a sequence of       *)
(* characters) and a type a name.  An object built from it is, as a row, a *)
(* sequence of <<key, value>> pairs in insertion order.                    *)

\* Field names a DataStore table can have; CKAN allows a comma in a name.
FieldIds == { <<"a">>, <<"b">>, <<"a", ",", "b">> }

FieldTypes == {"text", "int4"}

Fields == [id : FieldIds, type : FieldTypes]

Schemas ==
  { f \in SeqsUpTo(Fields, MaxFields) :
      \A i, j \in 1..Len(f) : f[i].id = f[j].id => i = j }

\* Object.fromEntries(schema.map(({ id, type }) => [id, type])): a later
\* entry of the same key replaces the value and keeps the key's place.
RECURSIVE fromEntries(_)
fromEntries(entries) ==
  IF entries = <<>> THEN <<>>
  ELSE LET rest == fromEntries(SubSeq(entries, 1, Len(entries) - 1))
           last == entries[Len(entries)]
       IN  IF \E i \in 1..Len(rest) : rest[i][1] = last[1]
           THEN [i \in 1..Len(rest) |->
                   IF rest[i][1] = last[1] THEN last ELSE rest[i]]
           ELSE Append(rest, last)

schemaDict(schema) ==
  fromEntries([i \in 1..Len(schema) |-> <<schema[i].id, schema[i].type>>])

\* obj[k] for a dictionary of types, "undefined" when the key is absent
TypeAt(obj, k) ==
  IF \E i \in 1..Len(obj) : obj[i][1] = k
  THEN obj[CHOOSE i \in 1..Len(obj) : obj[i][1] = k][2]
  ELSE "undefined"

\* The UTF-16 code unit of a character of the field names.
CodeUnit(c) ==
  IF c = "," THEN 44 ELSE IF c = "_" THEN 95 ELSE IF c = "a" THEN 97
  ELSE IF c = "b" THEN 98 ELSE IF c = "d" THEN 100 ELSE 105

\* s sorts before t: the default comparison of Array.prototype.sort, by
\* code units, a proper prefix first.
RECURSIVE SortsBefore(_, _)
SortsBefore(s, t) ==
  IF t = <<>> THEN FALSE
  ELSE IF s = <<>> THEN TRUE
  ELSE IF CodeUnit(Head(s)) # CodeUnit(Head(t))
       THEN CodeUnit(Head(s)) < CodeUnit(Head(t))
       ELSE SortsBefore(Tail(s), Tail(t))

\* One string put at its place in a sorted array.
RECURSIVE Insert(_, _)
Insert(k, sorted) ==
  IF sorted = <<>> THEN <<k>>
  ELSE IF SortsBefore(Head(sorted), k)
       THEN <<Head(sorted)>> \o Insert(k, Tail(sorted))
       ELSE <<k>> \o sorted

\* keys.sort()
RECURSIVE sort(_)
sort(keys) ==
  IF keys = <<>> THEN <<>> ELSE Insert(Head(keys), sort(Tail(keys)))

\* strings.join(): the strings with a comma between neighbours
RECURSIVE join(_)
join(strings) ==
  IF strings = <<>> THEN <<>>
  ELSE IF Len(strings) = 1 THEN Head(strings)
  ELSE Head(strings) \o <<",">> \o join(Tail(strings))

\* The two dictionaries compared: { sameNames, typeMismatches }
compareDicts(a, b) ==
  [sameNames |-> join(sort(Keys(a))) = join(sort(Keys(b))),
   typeMismatches |->
     SelectSeq(Keys(a), LAMBDA k : TypeAt(a, k) # TypeAt(b, k))]

\* The text the Compare button shows.
CompareText(c) ==
  IF c.sameNames /\ Len(c.typeMismatches) = 0 THEN "match"
  ELSE IF join(c.typeMismatches) = <<>> THEN "field lists differ"
  ELSE "type mismatches"

\* The button is clicked; schemas is what the server holds for the two
\* resources.
InitCompare ==
  /\ pc = "click"
  /\ schemas \in [src : Schemas, dst : Schemas]
  /\ comparison = NoComparison
  /\ cmpOut = "empty"
  /\ data = <<>> /\ tz = 0 /\ engine = "invalid"
  /\ Locals
  /\ CkanIdle

\* Both schemas are fetched and compared, and the outcome is shown.
Compare ==
  /\ pc = "click"
  /\ comparison' = compareDicts(schemaDict(schemas.src),
                                schemaDict(schemas.dst))
  /\ cmpOut' = CompareText(comparison')
  /\ pc' = "compared"
  /\ UNCHANGED <<dictVars, ckanVars, schemas>>

\* One of the two fetches throws: the error is shown.
CompareFails ==
  /\ pc = "click"
  /\ cmpOut' = "error"
  /\ pc' = "failed"
  /\ UNCHANGED <<dictVars, ckanVars, schemas, comparison>>

NextCompare == Compare \/ CompareFails

SpecCompare == InitCompare /\ [][NextCompare]_vars

-----------------------------------------------------------------------------
(* Properties.                                                             *)

\* The column the scan is on, or has just finished.
ScannedColumn == Column(data, headers[hi])

\* The first value of vals, in order, that is neither "" nor null; null if
\* there is none.
FirstNonEmpty(vals) ==
  LET idx == {i \in 1..Len(vals) : vals[i] # <<>> /\ vals[i] # null}
  IN  IF idx = {} THEN null ELSE vals[SetMin(idx)]

RECURSIVE TallySum(_)
TallySum(counts) ==
  IF counts = <<>> THEN 0
  ELSE Head(counts).count + TallySum(Tail(counts))

TallyKeys(counts) == {counts[i].type : i \in 1..Len(counts)}

\* "NA", "NULL", "" or white space only.
IsNaLike(v) ==
  /\ v # null
  /\ \/ v = <<"N","A">>
     \/ v = <<"N","U","L","L">>
     \/ \A i \in 1..Len(v) : v[i] \in WhiteSpace

\* An optional minus sign followed by one or more decimal digits.
IsSignedDigits(v) ==
  /\ Len(v) >= 1
  /\ \A i \in 2..Len(v) : v[i] \in Digits
  /\ v[1] \in Digits \/ (v[1] = "-" /\ Len(v) >= 2)

\* The tally a column has by counting, tag by tag, the rows of that tag.
CountedTally(col) ==
  [i \in 1..Len(TagOrder) |->
     [type  |-> TagOrder[i],
      count |-> Cardinality({r \in 1..Len(col) :
                              detectType(col[r], tz, engine) = TagOrder[i]})]]

Perms(n) == {f \in [1..n -> 1..n] : \A i, j \in 1..n : f[i] = f[j] => i = j}

Permuted(col, f) == [i \in 1..Len(col) |-> col[f[i]]]

Hello == <<"h","e","l","l","o">>

Jan1 == <<"2","0","2","3","-","0","1","-","0","1">>

Jun15 == <<"2","0","2","3","-","0","6","-","1","5">>

\* C1: a value that is "NA", "NULL", "" or white space only is classified
\* text and never becomes the column's example; the column ["", "NA",
\* "hello"] ends with three text counts, type text and example "hello".
C1_NaLikeNeverExample ==
  pc = "rows" /\ ri > 0 =>
    /\ IsNaLike(value) => detectedType = "text"
    /\ ~IsNaLike(example)
    /\ (ScannedColumn = << <<>>, <<"N","A">>, Hello >> /\ ri = 3) =>
         /\ CountOf(typeCounts, "text") = 3
         /\ chooseType(typeCounts) = "text"
         /\ example = Hello

\* C2: during the scan of a column the example is null until the first row
\* whose value is neither "" nor null, is that value from that row on, and
\* is never changed by a later row; after the last row it is null exactly
\* when the column has no such value.
C2_ExampleIsFirstNonEmpty ==
  pc = "rows" =>
    /\ example = FirstNonEmpty(SubSeq(ScannedColumn, 1, ri))
    /\ ri = Len(data) =>
         (example = null <=>
            \A r \in 1..Len(data) :
              ScannedColumn[r] = <<>> \/ ScannedColumn[r] = null)

C2_Witness ==
  /\ pc = "rows" /\ ri = 3 /\ Len(data) = 3
  /\ ScannedColumn[1] = <<>>
  /\ example = ScannedColumn[2]
  /\ ScannedColumn[3] \notin {<<>>, null, example}

\* C3: the tally starts with the six tags at zero; after each row the six
\* counts sum to the number of rows scanned, and the tally never has a tag
\* outside the six.
C3_TallySumsToRows ==
  pc = "rows" =>
    /\ TallyKeys(typeCounts) = Tags
    /\ Len(typeCounts) = 6
    /\ TallySum(typeCounts) = ri
    /\ ri = 0 => typeCounts = ZeroCounts

C3_Witness ==
  /\ pc = "rows" /\ ri = Len(data) /\ ri >= 2
  /\ \E t \in Tags : CountOf(typeCounts, t) = 2

\* C4: chooseType returns a tag whose count is at least every other count,
\* the earliest in the order text, int, float, bool, datetime, date among
\* the tags of maximal count; a tally of six equal counts resolves to text.
C4_ChooseTypeEarliestMax ==
  pc = "resolved" =>
    LET at == CHOOSE i \in 1..Len(TagOrder) : TagOrder[i] = chosenType
    IN  /\ chosenType \in Tags
        /\ \A i \in 1..Len(TagOrder) :
             typeCounts[at].count >= typeCounts[i].count
        /\ \A i \in 1..(at - 1) :
             typeCounts[i].count < typeCounts[at].count
        /\ (\A i \in 1..Len(TagOrder) :
              typeCounts[i].count = typeCounts[1].count)
             => chosenType = "text"

C4_Witness ==
  /\ pc = "resolved"
  /\ \A i \in 1..Len(TagOrder) : typeCounts[i].count = MaxCount
  /\ chosenType = "text"

\* C5: a value made of an optional minus sign and one or more digits is
\* bool when it is exactly "0" or "1" and int otherwise.
C5_DigitsBoolOrInt ==
  pc = "classified" /\ IsSignedDigits(value) =>
    detectedType = IF value \in {<<"0">>, <<"1">>} THEN "bool" ELSE "int"

C5_Witness ==
  /\ pc = "classified"
  /\ value = <<"0", "1">>
  /\ detectedType = "int"

\* C6: called with a table of zero rows, generateDataDictionary returns an
\* empty list, the kind of value it returns for a table with rows.
C6_EmptyTableEmptyList ==
  pc = "returned" /\ Len(data) = 0 =>
    result = [kind |-> "array", entries |-> <<>>]

\* C7: a date-only value such as "2023-01-01" is classified date whatever
\* the time-zone offset of the runtime.
C7_DateOnlyIsDate ==
  pc = "classified" /\ IsIsoDate(value) => detectedType = "date"

\* C8: for a table with rows the result is a list with one entry per key of
\* the first row, in that row's key order; each entry carries that key, the
\* type resolved from the column's own tally, the first non-empty value of
\* that column alone, and an empty description.
C8_OneEntryPerColumn ==
  pc = "returned" /\ Len(data) > 0 =>
    /\ result.kind = "array"
    /\ Len(result.entries) = Len(data[1])
    /\ \A i \in 1..Len(data[1]) :
         LET key == data[1][i][1]
             col == Column(data, key)
         IN  result.entries[i] =
               [column      |-> key,
                type        |-> chooseType(CountedTally(col)),
                example     |-> FirstNonEmpty(col),
                description |-> <<>>]

C8_Witness ==
  /\ pc = "returned" /\ Len(data) = 2
  /\ Len(result.entries) = 2
  /\ result.entries[1].column = "name"
  /\ result.entries[1].type # result.entries[2].type
  /\ result.entries[1].example # result.entries[2].example
  /\ result.entries[2].example # null

C10_HomogeneousResolved ==
  pc = "header" /\ hi = 2 =>
    LET col == Column(data, headers[1])
        Resolved(f) ==
          chooseType(ForEach(NewProfile, Permuted(col, f), tz, engine)
                       .typeCounts)
    IN  /\ \A T \in Tags :
             (\A r \in 1..Len(col) : detectType(col[r], tz, engine) = T) =>
               /\ chosenType = T
               /\ \A f \in Perms(Len(col)) : Resolved(f) = T
        /\ (\A r \in 1..Len(col) : col[r] \in BoolWords) =>
             /\ chosenType = "bool"
             /\ \A f \in Perms(Len(col)) : Resolved(f) = "bool"

C10_Witness ==
  /\ pc = "header" /\ hi = 2 /\ Len(data) = 3
  /\ LET col == Column(data, headers[1])
     IN  /\ col[1] = <<"T","r","u","e">> /\ col[2] = <<"0">>
         /\ col[3] = <<"f","a","l","s","e">>
         /\ chosenType = "bool"
         /\ \E f \in Perms(3) :
              ForEach(NewProfile, Permuted(col, f), tz, engine).example
                # example

\* C11: the JSONP fallback serves read-only calls only: a state-changing
\* action sent with an API key (datastore_create) is never issued again as
\* a JSONP GET without the key, whatever made the fetch fail; and every
\* JSONP request directly follows the fetch of the same call, so there is
\* at most one per ckanCall.
C11_JsonpOnlyForReads ==
  \A i \in 1..Len(requests) :
    requests[i].via = "jsonp" =>
      /\ i > 1
      /\ requests[i - 1].via = "fetch"
      /\ requests[i - 1].action = requests[i].action
      /\ requests[i - 1].resource = requests[i].resource
      /\ ~(apiKey # "" /\ requests[i].action = "datastore_create")

\* The ids of a schema, and the type a schema gives an id.
IdsOf(schema) == {schema[i].id : i \in 1..Len(schema)}

TypesOf(schema, id) ==
  {schema[i].type : i \in {j \in 1..Len(schema) : schema[j].id = id}}

\* C12: the comparison reports a perfect match exactly when the two schemas
\* have the same set of field ids and every id has the same type in both;
\* sameNames is true exactly when the id sets are equal, and typeMismatches
\* lists exactly the source ids whose destination type differs or is absent.
C12_CompareExact ==
  pc = "compared" =>
    LET src == schemas.src
        dst == schemas.dst
        sameIds == IdsOf(src) = IdsOf(dst)
        differing == {id \in IdsOf(src) : TypesOf(src, id) # TypesOf(dst, id)}
    IN  /\ comparison.sameNames <=> sameIds
        /\ {comparison.typeMismatches[i] :
              i \in 1..Len(comparison.typeMismatches)} = differing
        /\ cmpOut = "match" <=> (sameIds /\ differing = {})

=============================================================================
